---- MODULE Spec2Model ----
(***************************************************************************)
(* A model of the Omarchy manual scraper (src/src/scraper.py): the ledger  *)
(* of chapter digests, link discovery, the semaphore-bounded chapter       *)
(* tasks, the as_completed collection loop, the combined file and the      *)
(* ledger save.  Strings the code inspects character by character (titles, *)
(* filenames) are sequences of one-character strings.                      *)
(***************************************************************************)
EXTENDS Integers, Sequences, FiniteSets, TLC

VARIABLES
    run_no,           \* which invocation of the program this is (1, 2, ...)
    pc,               \* position of the process inside __init__ / run()
    dry_run,          \* self.dry_run
    session,          \* self.session: "none" | "open" | "closed"
    metadata,         \* self.metadata, the in-memory ledger
    load_warning,     \* whether _load_metadata printed its warning
    ledger_file,      \* the ledger file on disk
    chapter_files,    \* the files of the chapters directory: filename -> content
    combined_file,    \* the combined Markdown file on disk
    ledger_writes,    \* how many times this run opened the ledger file for writing
    remote,           \* what the server holds for each chapter URL
    chapter_links,    \* the list discovery returned: <<[title, url], ...>>
    sem_value,        \* the semaphore's counter
    waiters,          \* tasks waiting for the semaphore, in FIFO order
    tpc,              \* per task: "waiting" | "fetching" | "completed" | "consumed"
    tres,             \* per task: its result, or the exception it raised
    done_queue,       \* as_completed's queue: finished tasks in completion order
    results_dict,     \* run()'s results_dict: index -> [filename, content]
    changed_chapters, \* run()'s changed_chapters
    results,          \* the list run() hands to _create_combined_file
    fetched,          \* the chapter URLs requested from the server in this run
    error,            \* the exception that left run() / __init__, or "none"
    disk_at_start,    \* the three kinds of file as the process found them (history)
    prev_run,         \* what the previous invocation did (history)
    sigint,           \* the interrupt signal: "none" | "pending" | "handled"
    fetch_failure,    \* the ScraperError of the failed root fetch that main() caught
    legacy,           \* the process of the legacy command line (src/cli.py)
    toc_links         \* the a.toc__link anchors list-links mode found (history)

vars == <<run_no, pc, dry_run, session, metadata, load_warning, ledger_file,
          chapter_files, combined_file, ledger_writes, remote, chapter_links,
          sem_value, waiters, tpc, tres, done_queue, results_dict,
          changed_chapters, results, fetched, error, disk_at_start,
          prev_run, sigint, fetch_failure, legacy, toc_links>>

-----------------------------------------------------------------------------
(* Bounds of the model *)

\* anchors on the root page
MaxAnchors == 3
\* invocations of the program, one after the other
MaxRuns == 2
\* anchors on the root page when the program is run more than once
MaxRunAnchors == 2
\* anchors on the root page in list-links mode
MaxListAnchors == 3
\* the longest text the string functions take character by character
PieceLen == 16

(* Program constants *)

\* Config.max_concurrent as configured for the run (the default is 5)
MaxConcurrent == 2
\* the length _sanitize_filename truncates to
MaxFilenameLen == 100
\* the only status _fetch_page accepts
StatusOK == 200
\* the characters of a failed response's body that _fetch_page quotes
ExcerptLen == 200
\* the line feeds the clean-up pattern of _extract_content needs to match
MinNewlines == 3
\* config.MAX_CONCURRENT_REQUESTS of the legacy configuration module
DefaultMaxConcurrent == 5

-----------------------------------------------------------------------------
(* Strings as sequences of characters *)

Hostile == {"<", ">", ":", "\"", "/", "\\", "|", "?", "*"}
Whitespace == {" ", "\t", "\n", "\r"}
StripChars == {".", "_"}
MdSuffix == <<".", "m", "d">>
OpenPrefix == <<"O", "p", "e", "n", " ">>
OpenWord == <<"O", "p", "e", "n">>

StartsWith(s, p) ==
    /\ Len(s) >= Len(p)
    /\ SubSeq(s, 1, Len(p)) = p

\* str.replace(old, new) character by character: every non-overlapping
\* occurrence, left to right
RECURSIVE ReplaceFromLeft(_, _, _)
ReplaceFromLeft(s, old, new) ==
    IF s = <<>> THEN <<>>
    ELSE IF StartsWith(s, old)
         THEN new \o ReplaceFromLeft(SubSeq(s, Len(old) + 1, Len(s)), old, new)
         ELSE <<Head(s)>> \o ReplaceFromLeft(Tail(s), old, new)

\* the positions of s at which old occurs
Occurrences(s, old) ==
    { i \in 1..(Len(s) - Len(old) + 1) : SubSeq(s, i, i + Len(old) - 1) = old }

\* str.replace(old, new); a text longer than PieceLen is taken occurrence by
\* occurrence (the text before the first one, new, and the rest replaced
\* likewise), which gives the same text in fewer nested evaluations
RECURSIVE Replace(_, _, _)
Replace(s, old, new) ==
    IF Len(s) <= PieceLen THEN ReplaceFromLeft(s, old, new)
    ELSE LET found == Occurrences(s, old)
         IN  IF found = {} THEN s
             ELSE LET i == CHOOSE j \in found : \A k \in found : j <= k
                  IN  SubSeq(s, 1, i - 1) \o new \o
                      Replace(SubSeq(s, i + Len(old), Len(s)), old, new)

\* ReplaceHostile that replaces nothing
KeepHostile(s) == s

\* re.sub(r'[<>:"/\\|?*]', '_', title)
ReplaceHostile(s) == [i \in DOMAIN s |-> IF s[i] \in Hostile THEN "_" ELSE s[i]]

\* re.sub(r'\s+', '_', s) character by character: each maximal run of
\* whitespace becomes one underscore
RECURSIVE CollapseRuns(_)
CollapseRuns(s) ==
    IF s = <<>> THEN <<>>
    ELSE IF Head(s) \in Whitespace
         THEN IF Len(s) > 1 /\ s[2] \in Whitespace
              THEN CollapseRuns(Tail(s))
              ELSE <<"_">> \o CollapseRuns(Tail(s))
         ELSE <<Head(s)>> \o CollapseRuns(Tail(s))

\* re.sub(r'\s+', '_', s); a text longer than PieceLen is taken in two
\* halves, and the two underscores of a run that spans the cut become one
RECURSIVE CollapseWhitespace(_)
CollapseWhitespace(s) ==
    IF Len(s) <= PieceLen THEN CollapseRuns(s)
    ELSE LET mid == Len(s) \div 2
             left == CollapseWhitespace(SubSeq(s, 1, mid))
             right == CollapseWhitespace(SubSeq(s, mid + 1, Len(s)))
         IN  IF s[mid] \in Whitespace /\ s[mid + 1] \in Whitespace
             THEN left \o Tail(right)
             ELSE left \o right

RECURSIVE LStrip(_, _)
LStrip(s, chars) ==
    IF s # <<>> /\ Head(s) \in chars THEN LStrip(Tail(s), chars) ELSE s

RECURSIVE RStrip(_, _)
RStrip(s, chars) ==
    IF s # <<>> /\ s[Len(s)] \in chars
    THEN RStrip(SubSeq(s, 1, Len(s) - 1), chars)
    ELSE s

\* str.strip(chars)
Strip(s, chars) == RStrip(LStrip(s, chars), chars)

sanitize_filename(title) ==
    LET sanitized == Strip(CollapseWhitespace(ReplaceHostile(title)), StripChars)
    IN  IF Len(sanitized) > MaxFilenameLen
        THEN SubSeq(sanitized, 1, MaxFilenameLen)
        ELSE sanitized

\* f"{self._sanitize_filename(title)}.md"
FilenameOf(title) == sanitize_filename(title) \o MdSuffix

\* filename.replace('.md', '').replace('_', ' ')
HeadingOf(filename) == Replace(Replace(filename, MdSuffix, <<>>), <<"_">>, <<" ">>)

\* how many line feeds the leading whitespace run of s holds
RECURSIVE RunNewlines(_)
RunNewlines(s) ==
    IF s = <<>> \/ Head(s) \notin Whitespace THEN 0
    ELSE (IF Head(s) = "\n" THEN 1 ELSE 0) + RunNewlines(Tail(s))

\* s without its leading whitespace run up to and including the last line
\* feed of that run, of which n are still ahead
RECURSIVE DropThroughLastNewline(_, _)
DropThroughLastNewline(s, n) ==
    IF n = 0 THEN s
    ELSE DropThroughLastNewline(Tail(s), IF Head(s) = "\n" THEN n - 1 ELSE n)

\* re.sub(r'\n\s*\n\s*\n', '\n\n', s): leftmost, greedy, non-overlapping; a
\* match runs from a line feed to the last line feed of the whitespace run
\* that starts there, when that run holds three line feeds or more
RECURSIVE CollapseBlankLines(_)
CollapseBlankLines(s) ==
    IF s = <<>> THEN <<>>
    ELSE IF Head(s) = "\n" /\ RunNewlines(s) >= MinNewlines
         THEN <<"\n", "\n">> \o
              CollapseBlankLines(DropThroughLastNewline(s, RunNewlines(s)))
         ELSE <<Head(s)>> \o CollapseBlankLines(Tail(s))

\* clean_markdown that only trims the ends
strip_markdown(markdown_content) == Strip(markdown_content, Whitespace)

\* the clean-up of _extract_content: re.sub(...) and then .strip()
clean_markdown(markdown_content) ==
    Strip(CollapseBlankLines(markdown_content), Whitespace)

-----------------------------------------------------------------------------
(* URLs: a host and a path of segments; the query string is empty          *)
(* (Config.query_param = "")                                               *)

ManualSegment == "the-omarchy-manual"

\* Config.base_url = "https://learn.omacom.io/2/the-omarchy-manual"
base_url == [host |-> "learn.omacom.io", path |-> <<"2", ManualSegment>>]

\* urljoin for the three shapes of href the code tells apart
ResolveHref(href) ==
    CASE href.kind = "root" -> [host |-> base_url.host, path |-> href.path]
      [] href.kind = "http" -> [host |-> href.host, path |-> href.path]
      [] OTHER ->
            [host |-> base_url.host,
             path |-> SubSeq(base_url.path, 1, Len(base_url.path) - 1) \o href.path]

\* '/the-omarchy-manual/' in full_href: the segment occurs followed by a slash
InManual(url) ==
    \E k \in 1..(Len(url.path) - 1) : url.path[k] = ManualSegment

\* text.replace('Open ', '') if text.startswith('Open ') else text
CleanTitle(text) ==
    IF StartsWith(text, OpenPrefix) THEN Replace(text, OpenPrefix, <<>>) ELSE text

\* The a.toc__link anchors a root page can carry: [text, href]
Anchors ==
    { [text |-> OpenPrefix \o <<"A", ":", "B">>,
       href |-> [kind |-> "root", host |-> "", path |-> <<"2", ManualSegment, "91">>]],
      [text |-> <<"A", " ", "B">>,
       href |-> [kind |-> "rel", host |-> "", path |-> <<ManualSegment, "92">>]],
      [text |-> <<"C">>,
       href |-> [kind |-> "http", host |-> "learn.omacom.io",
                 path |-> <<"2", ManualSegment, "93">>]],
      [text |-> OpenWord,
       href |-> [kind |-> "root", host |-> "", path |-> <<"2", ManualSegment, "94">>]],
      [text |-> <<"D">>,
       href |-> [kind |-> "root", host |-> "", path |-> <<"about">>]] }

PagesUpTo(n) == UNION { [1..k -> Anchors] : k \in 0..n }
RootPages == PagesUpTo(MaxAnchors)

SeqUrls(links) == { links[k].url : k \in DOMAIN links }

\* the loop over toc_links: keep an anchor that has an href and a text when
\* its URL is new, inside the manual, and its cleaned title is neither empty
\* nor the leftover "Open"
RECURSIVE FilterLinks(_, _)
FilterLinks(anchors, acc) ==
    IF anchors = <<>> THEN acc
    ELSE LET link == Head(anchors)
             clean_title == CleanTitle(link.text)
             full_href == ResolveHref(link.href)
             keep == /\ link.href.kind # "none"
                     /\ link.text # <<>>
                     /\ full_href \notin SeqUrls(acc)
                     /\ InManual(full_href)
                     /\ clean_title \notin {<<>>, OpenWord}
         IN  FilterLinks(Tail(anchors),
                         IF keep
                         THEN Append(acc, [title |-> clean_title, url |-> full_href])
                         ELSE acc)

\* every URL discovery can return from a page made of these anchors
ChapterUrls == UNION { SeqUrls(FilterLinks(<<a>>, <<>>)) : a \in Anchors }

\* More anchors a root page can carry: a second title for the first URL, an
\* href that begins with "http" without being an absolute URL
\* ("http-notes/the-omarchy-manual/95"), an anchor without text and one
\* without href, a title that holds "Open " a second time, and two links
\* outside the manual whose URLs hold its path segment: one on another host,
\* one below another directory of the manual's host
TocAnchors ==
    Anchors \cup
    { [text |-> <<"A", "2">>,
       href |-> [kind |-> "rel", host |-> "", path |-> <<ManualSegment, "91">>]],
      [text |-> <<"E">>,
       href |-> [kind |-> "http", host |-> "",
                 path |-> <<"http-notes", ManualSegment, "95">>]],
      [text |-> <<>>,
       href |-> [kind |-> "root", host |-> "", path |-> <<"2", ManualSegment, "96">>]],
      [text |-> <<"F">>,
       href |-> [kind |-> "none", host |-> "", path |-> <<>>]],
      [text |-> OpenPrefix \o <<"A", " ">> \o OpenPrefix \o <<"B">>,
       href |-> [kind |-> "root", host |-> "", path |-> <<"2", ManualSegment, "97">>]],
      [text |-> <<"G">>,
       href |-> [kind |-> "http", host |-> "mirror.example",
                 path |-> <<"x", ManualSegment, "1">>]],
      [text |-> <<"H">>,
       href |-> [kind |-> "root", host |-> "", path |-> <<"blog", ManualSegment, "notes">>]] }

ListPages == UNION { [1..k -> TocAnchors] : k \in 0..MaxListAnchors }

\* the title of the spec's sample scenario
SampleTitle ==
    <<"A", "d", "v", "a", "n", "c", "e", "d", ":", " ", "I",
       "/", "O", " ", "&", " ", "N", "e", "t", "w", "o", "r", "k", "i", "n", "g">>

\* a title of 101 characters with a space where _sanitize_filename cuts
LongTitle == [k \in 1..(MaxFilenameLen - 1) |-> "a"] \o <<" ", "b">>

\* anchors whose titles exercise _sanitize_filename: the sample title, a
\* title with dots, underscores and a whitespace run at its ends and inside,
\* a plain one, and one longer than the filename may be
TitleAnchors ==
    { [text |-> SampleTitle,
       href |-> [kind |-> "root", host |-> "", path |-> <<"2", ManualSegment, "91">>]],
      [text |-> <<".", "_", "a", " ", "\t", " ", "b", "?", ".">>,
       href |-> [kind |-> "rel", host |-> "", path |-> <<ManualSegment, "92">>]],
      [text |-> <<"C">>,
       href |-> [kind |-> "http", host |-> "learn.omacom.io",
                 path |-> <<"2", ManualSegment, "93">>]],
      [text |-> LongTitle,
       href |-> [kind |-> "root", host |-> "", path |-> <<"2", ManualSegment, "92">>]] }

\* root pages with a single chapter
ChapterPages == [1..1 -> TitleAnchors]

-----------------------------------------------------------------------------
(* Pages, Markdown and digests *)

Versions == {1, 2}

\* the elements _extract_content removes from the content element
Unwanted == {"script", "style", "nav", "header", "footer"}

\* the elements soup.find is asked for, in the order _extract_content asks
FindOrder == <<"main", "div.class", "article", "div#id", "body">>

\* an element below a content element, at any depth, in document order, with
\* the Markdown markdownify renders for it
Node(tag, markdown) == [tag |-> tag, md |-> markdown]

NoRegions == [r \in {} |-> <<>>]

\* a 200 response whose body has no main, content div, article or body element
BarePage == [regions |-> NoRegions]

VersionTag(v) == IF v = 0 THEN "v0" ELSE IF v = 1 THEN "v1" ELSE "v2"

\* chapter pages that differ in blank lines, in the element that holds the
\* content and in the unwanted elements below it
SamplePages ==
    (3 :> [regions |-> ("main" :> <<Node("p", <<"a", "\n", "\n", "b">>)>>)])
    @@ (4 :> [regions |-> ("main" :> <<Node("p", <<"a", "\n", "\n", "\n", "\n", "b">>)>>)])
    @@ (5 :> [regions |-> ("main" :> <<Node("p", <<"a", "\n", " ", "\n", "b">>)>>)])
    @@ (6 :> [regions |-> ("main" :> <<Node("p", <<"a", "\n", " ", "\n", " ", "\n", "b">>)>>)])
    @@ (7 :> [regions |-> ("main" :> <<Node("p", <<"\n", "a", "\n", "\n">>),
                                      Node("p", <<"\n", "b", "\n", "\n">>)>>)])
    @@ (8 :> [regions |->
                ("div.class" :> <<Node("nav", <<"n", "\n", "\n">>),
                                  Node("p", <<"a", "\n", "\n">>),
                                  Node("script", <<"x", "\n", "\n">>),
                                  Node("p", <<"b">>)>>)
                @@ ("body" :> <<Node("header", <<"h", "\n", "\n">>),
                                Node("nav", <<"n", "\n", "\n">>),
                                Node("p", <<"a", "\n", "\n">>),
                                Node("script", <<"x", "\n", "\n">>),
                                Node("p", <<"b">>)>>)])
    @@ (9 :> [regions |->
                ("body" :> <<Node("header", <<"h", "\n", "\n">>),
                             Node("style", <<"s", "\n", "\n">>),
                             Node("p", <<"a", "\n", "\n", "\n">>),
                             Node("footer", <<"f">>)>>)])
    @@ (10 :> BarePage)

SamplePageIds == DOMAIN SamplePages

\* the page the server holds for a chapter URL in a given version
PageOf(url, v) ==
    IF v \in SamplePageIds THEN SamplePages[v]
    ELSE [regions |->
            ("main" :> <<Node("nav", <<"toc", "\n", "\n">>),
                         Node("p", <<url.path[Len(url.path)], " ", VersionTag(v)>>),
                         Node("script", <<"js">>)>>)]

\* what a request can come back with
Responses(url) ==
    { [kind |-> "ok", status |-> StatusOK, page |-> PageOf(url, remote[url]), body_len |-> 0],
      [kind |-> "ok", status |-> StatusOK, page |-> BarePage, body_len |-> 0],
      [kind |-> "ok", status |-> 500, page |-> BarePage, body_len |-> 0],
      [kind |-> "client_error", status |-> 0, page |-> BarePage, body_len |-> 0] }

NoFailure == [exc |-> "none", msg |-> "none", status |-> 0, excerpt_len |-> 0,
              cause |-> "none"]

\* the exception _fetch_page raises: a ScraperError whatever went wrong; the
\* one raised for a status other than 200 is raised inside the try block and
\* wrapped again by "except Exception"
fetch_error(resp) ==
    IF session # "open"
    THEN [exc |-> "ScraperError", msg |-> "Session not initialized", status |-> 0,
          excerpt_len |-> 0, cause |-> "no_session"]
    ELSE IF resp.kind = "client_error"
    THEN [exc |-> "ScraperError", msg |-> "Failed to fetch", status |-> 0,
          excerpt_len |-> 0, cause |-> "client_error"]
    ELSE IF resp.kind = "timeout"
    THEN [exc |-> "ScraperError", msg |-> "Unexpected error fetching", status |-> 0,
          excerpt_len |-> 0, cause |-> "timeout"]
    ELSE IF resp.status # StatusOK
    THEN [exc |-> "ScraperError", msg |-> "Unexpected error fetching",
          status |-> resp.status,
          excerpt_len |-> IF resp.body_len > ExcerptLen THEN ExcerptLen
                          ELSE resp.body_len,
          cause |-> "status"]
    ELSE NoFailure

\* _fetch_page: the body of a 200 response, ScraperError for anything else
fetch_page(resp) ==
    LET e == fetch_error(resp)
    IN  IF e = NoFailure THEN [ok |-> TRUE, page |-> resp.page, err |-> "none"]
        ELSE [ok |-> FALSE, page |-> BarePage, err |-> e.msg]

\* soup.find('main') and its fallbacks: the first element of FindOrder the
\* page has, "none" when it has none of them
main_element(page) ==
    IF \A k \in DOMAIN FindOrder : FindOrder[k] \notin DOMAIN page.regions
    THEN "none"
    ELSE FindOrder[CHOOSE k \in DOMAIN FindOrder :
                        /\ FindOrder[k] \in DOMAIN page.regions
                        /\ \A j \in 1..(k - 1) : FindOrder[j] \notin DOMAIN page.regions]

IsWanted(node) == node.tag \notin Unwanted

\* decompose_unwanted that removes nothing
keep_all(nodes) == nodes

\* for element in main_element.find_all([...]): element.decompose()
decompose_unwanted(nodes) == SelectSeq(nodes, IsWanted)

\* md(str(main_element)): the Markdown of the elements left, one after another
RECURSIVE markdownify(_)
markdownify(nodes) ==
    IF nodes = <<>> THEN <<>> ELSE Head(nodes).md \o markdownify(Tail(nodes))

\* the Markdown of a page before the clean-up
RawMarkdown(page) == markdownify(decompose_unwanted(page.regions[main_element(page)]))

\* _extract_content: the Markdown of the content element, or ScraperError
extract_content(page) ==
    IF main_element(page) = "none"
    THEN [ok |-> FALSE, markdown |-> <<>>]
    ELSE [ok |-> TRUE, markdown |-> clean_markdown(RawMarkdown(page))]

\* _calculate_hash: a hex digest, never the empty string, one per text
calculate_hash(content) == <<"sha256">> \o content

-----------------------------------------------------------------------------
(* The ledger in memory and on disk *)

EmptyMap == [u \in {} |-> <<>>]

\* self.metadata after json.load: a dict, or whatever else the JSON text held
EmptyLedger == [shape |-> "dict", map |-> EmptyMap]

LedgerEntry(title, filename, hash, now, url) ==
    [title |-> title, filename |-> filename, hash |-> hash,
     last_updated |-> now, url |-> url]

MissingFile == [kind |-> "missing", shape |-> "none", map |-> EmptyMap]
\* truncated or otherwise unparsable JSON text
PartialFile == [kind |-> "partial", shape |-> "none", map |-> EmptyMap]
\* bytes that are not UTF-8
UndecodableFile == [kind |-> "undecodable", shape |-> "none", map |-> EmptyMap]
JsonFile(ledger) == [kind |-> "json", shape |-> ledger.shape, map |-> ledger.map]

\* a ledger left by an earlier invocation: the first chapter was hashed in an
\* older version, the second in the version the server holds now, under an
\* older title
StaleLedger ==
    LET u1 == [host |-> base_url.host, path |-> <<"2", ManualSegment, "91">>]
        u2 == [host |-> base_url.host, path |-> <<"2", ManualSegment, "92">>]
    IN  [shape |-> "dict",
         map |-> (u1 :> LedgerEntry(<<"A">>, <<"A">> \o MdSuffix,
                                    calculate_hash(extract_content(PageOf(u1, 0)).markdown), 0, u1))
                 @@ (u2 :> LedgerEntry(<<"B">>, <<"B">> \o MdSuffix,
                                       calculate_hash(extract_content(PageOf(u2, 1)).markdown), 0, u2))]

InitialLedgerFiles ==
    { MissingFile, PartialFile, UndecodableFile,
      JsonFile([shape |-> "list", map |-> EmptyMap]),
      JsonFile(StaleLedger) }

\* _load_metadata: [raised, metadata, warning]
load_metadata(file) ==
    CASE file.kind = "missing" ->
            [raised |-> FALSE, metadata |-> EmptyLedger, warning |-> FALSE]
      [] file.kind = "partial" ->
            \* json.JSONDecodeError is caught
            [raised |-> FALSE, metadata |-> EmptyLedger, warning |-> TRUE]
      [] file.kind = "undecodable" ->
            \* UnicodeDecodeError is neither JSONDecodeError nor IOError
            [raised |-> TRUE, metadata |-> EmptyLedger, warning |-> FALSE]
      [] OTHER ->
            [raised |-> FALSE,
             metadata |-> [shape |-> file.shape, map |-> file.map],
             warning |-> FALSE]

\* self.metadata.get(url, {}).get('hash', ''): a list has no .get
OldHash(md, url) == IF url \in DOMAIN md.map THEN md.map[url].hash ELSE <<>>

-----------------------------------------------------------------------------
(* The legacy command line (src/cli.py with src/omarchy_scraper.py and      *)
(* src/config.py): two module namespaces and the values run() works with   *)

\* the attributes of the module config as src/config.py defines them
ConfigDefaults ==
    [BASE_URL |-> "https://learn.omacom.io/2/the-omarchy-manual",
     QUERY_PARAM |-> "",
     OUTPUT_DIR |-> "chapters",
     COMBINED_OUTPUT |-> "omarchy_manual_complete.md",
     MAX_CONCURRENT_REQUESTS |-> DefaultMaxConcurrent]

\* what argparse can hand to main(): each option given or left at its default
CommandLines ==
    [url : {ConfigDefaults.BASE_URL, "https://example.com/manual"},
     query_param : {ConfigDefaults.QUERY_PARAM, "?full=1"},
     output_dir : {ConfigDefaults.OUTPUT_DIR, "my_chapters"},
     combined_output : {ConfigDefaults.COMBINED_OUTPUT, "all.md"},
     max_concurrent : {ConfigDefaults.MAX_CONCURRENT_REQUESTS, 1, 2}]

NoArgs == [url |-> "", query_param |-> "", output_dir |-> "",
           combined_output |-> "", max_concurrent |-> 0]
NoUse == [semaphore |-> 0, root_url |-> <<>>, output_dir |-> "",
          combined_output |-> ""]

\* before the interpreter has started on cli.py
LegacyOff == [pc |-> "off", config |-> ConfigDefaults, bound |-> ConfigDefaults,
              args |-> NoArgs, used |-> NoUse]

\* every variable but the legacy process
mainvars == <<run_no, pc, dry_run, session, metadata, load_warning, ledger_file,
              chapter_files, combined_file, ledger_writes, remote, chapter_links,
              sem_value, waiters, tpc, tres, done_queue, results_dict,
              changed_chapters, results, fetched, error, disk_at_start,
              prev_run, sigint, fetch_failure, toc_links>>

\* cli.py line 11 runs omarchy_scraper.py, whose "from config import ..."
\* binds the scraper module's own names to the values config holds then
legacy_import ==
    /\ legacy.pc = "off"
    /\ legacy' = [legacy EXCEPT !.pc = "imported", !.bound = legacy.config]
    /\ UNCHANGED mainvars

\* parser.parse_args()
legacy_parse_args(a) ==
    /\ legacy.pc = "imported"
    /\ legacy' = [legacy EXCEPT !.pc = "parsed", !.args = a]
    /\ UNCHANGED mainvars

\* "Update config with CLI arguments": attributes of the module config are
\* assigned; the names bound in omarchy_scraper are other names
legacy_update_config ==
    /\ legacy.pc = "parsed"
    /\ legacy' = [legacy EXCEPT
                    !.pc = "updated",
                    !.config = [BASE_URL |-> legacy.args.url,
                                QUERY_PARAM |-> legacy.args.query_param,
                                OUTPUT_DIR |-> legacy.args.output_dir,
                                COMBINED_OUTPUT |-> legacy.args.combined_output,
                                MAX_CONCURRENT_REQUESTS |-> legacy.args.max_concurrent]]
    /\ UNCHANGED mainvars

\* OmarchyScraper.run() of omarchy_scraper.py: the semaphore, the root URL and
\* the paths come from the names bound at import
legacy_run ==
    /\ legacy.pc = "updated"
    /\ legacy' = [legacy EXCEPT
                    !.pc = "ran",
                    !.used = [semaphore |-> legacy.bound.MAX_CONCURRENT_REQUESTS,
                              root_url |-> <<legacy.bound.BASE_URL,
                                             legacy.bound.QUERY_PARAM>>,
                              output_dir |-> legacy.bound.OUTPUT_DIR,
                              combined_output |-> legacy.bound.COMBINED_OUTPUT]]
    /\ UNCHANGED mainvars

-----------------------------------------------------------------------------
(* Per-run state *)

NoResult == [ok |-> FALSE, filename |-> <<>>, content |-> <<>>, changed |-> FALSE,
             err |-> "none"]
AbsentFile == [exists |-> FALSE, body |-> <<>>]
NoPrevRun == [ran |-> FALSE, done |-> FALSE, dry_run |-> FALSE, saved |-> FALSE,
              ok |-> {}]

Tasks == DOMAIN chapter_links

\* the tasks that hold a slot: inside "async with semaphore"
InFlight == { i \in Tasks : tpc[i] = "fetching" }

\* the chapters whose task returned a result in this run
Succeeded == { i \in Tasks : tpc[i] \in {"completed", "consumed"} /\ tres[i].ok }
Failed == { i \in Tasks : tpc[i] \in {"completed", "consumed"} /\ ~tres[i].ok }

FreshRun ==
    /\ dry_run = FALSE
    /\ session = "none"
    /\ metadata = EmptyLedger
    /\ load_warning = FALSE
    /\ ledger_writes = 0
    /\ chapter_links = <<>>
    /\ sem_value = 0
    /\ waiters = <<>>
    /\ tpc = <<>>
    /\ tres = <<>>
    /\ done_queue = <<>>
    /\ results_dict = EmptyMap
    /\ changed_chapters = <<>>
    /\ results = <<>>
    /\ fetched = {}
    /\ error = "none"

Init ==
    /\ run_no = 1
    /\ pc = "start"
    /\ FreshRun
    /\ ledger_file \in InitialLedgerFiles
    /\ chapter_files = EmptyMap
    /\ combined_file = AbsentFile
    /\ remote = [u \in ChapterUrls |-> 1]
    /\ disk_at_start = <<ledger_file, chapter_files, combined_file>>
    /\ prev_run = NoPrevRun
    /\ sigint = "none"
    /\ fetch_failure = NoFailure
    /\ legacy = LegacyOff
    /\ toc_links = <<>>

\* the ledger an earlier invocation saved when the server held page v for
\* every chapter
LedgerAfter(v) ==
    [shape |-> "dict",
     map |-> [u \in ChapterUrls |->
                LedgerEntry(<<"o", "l", "d">>, <<"o", "l", "d">> \o MdSuffix,
                            calculate_hash(extract_content(PageOf(u, v)).markdown),
                            0, u)]]

\* a single-chapter manual whose page is one of SamplePages, after an
\* earlier invocation that saw one of them, or after none
InitChapter ==
    /\ run_no = 1
    /\ pc = "start"
    /\ FreshRun
    /\ ledger_file \in
          {MissingFile} \cup
          { JsonFile(LedgerAfter(v)) :
                v \in { w \in SamplePageIds : main_element(SamplePages[w]) # "none" } }
    /\ chapter_files = EmptyMap
    /\ combined_file = AbsentFile
    /\ remote \in { [u \in ChapterUrls |-> v] : v \in SamplePageIds }
    /\ disk_at_start = <<ledger_file, chapter_files, combined_file>>
    /\ prev_run = NoPrevRun
    /\ sigint = "none"
    /\ fetch_failure = NoFailure
    /\ legacy = LegacyOff
    /\ toc_links = <<>>

disk == <<ledger_file, chapter_files, combined_file>>
taskvars == <<chapter_links, sem_value, waiters, tpc, tres, done_queue, fetched>>
loopvars == <<results_dict, changed_chapters, results>>
envvars == <<sigint, fetch_failure, legacy, toc_links>>

-----------------------------------------------------------------------------
(* __init__ and the start of run() *)

\* OmarchyScraper(config, dry_run=d): __init__ calls _load_metadata
Construct(d) ==
    /\ pc = "start"
    /\ LET loaded == load_metadata(ledger_file)
       IN  /\ dry_run' = d
           /\ metadata' = loaded.metadata
           /\ load_warning' = loaded.warning
           /\ pc' = IF loaded.raised THEN "init_raised" ELSE "constructed"
           /\ error' = IF loaded.raised THEN "UnicodeDecodeError" ELSE "none"
    /\ UNCHANGED <<run_no, session, disk, ledger_writes, remote, taskvars,
                   loopvars, disk_at_start, prev_run, envvars>>

\* run() up to _create_session: the output directories, then the session
create_session ==
    /\ pc = "constructed"
    /\ session' = "open"
    /\ pc' = "discover"
    /\ UNCHANGED <<run_no, dry_run, metadata, load_warning, disk, ledger_writes,
                   remote, taskvars, loopvars, error, disk_at_start, prev_run, envvars>>

\* the orders in which asyncio.as_completed can start n tasks: it turns the
\* coroutines into tasks while iterating over set(tasks), and a set of
\* coroutine objects iterates in the order of their addresses' hashes
TaskOrders(n) ==
    { order \in [1..n -> 1..n] :
        \A a, b \in 1..n : a # b => order[a] # order[b] }

\* extract_chapter_links that returns an empty list instead of raising
extract_chapter_links_or_empty(resp, anchors) ==
    /\ pc = "discover"
    /\ LET got == fetch_page(resp)
           links == IF got.ok THEN FilterLinks(anchors, <<>>) ELSE <<>>
       IN  IF ~got.ok
           THEN /\ pc' = "raised"
                /\ error' = "base_page"
                /\ session' = "closed"
                /\ UNCHANGED taskvars
           ELSE /\ pc' = "processing"
                /\ chapter_links' = links
                /\ sem_value' = MaxConcurrent
                /\ waiters' \in TaskOrders(Len(links))
                /\ tpc' = [k \in DOMAIN links |-> "waiting"]
                /\ tres' = [k \in DOMAIN links |-> NoResult]
                /\ UNCHANGED <<done_queue, fetched, session, error>>
    /\ UNCHANGED <<run_no, dry_run, metadata, load_warning, disk, ledger_writes,
                   remote, loopvars, disk_at_start, prev_run, envvars>>

\* extract_chapter_links on the response to the base URL, then the creation
\* of the semaphore and of one task per chapter, which as_completed starts in
\* one of TaskOrders; a ScraperError leaves run()
\* through "except Exception: raise" and "finally: _close_session()"
extract_chapter_links(resp, anchors) ==
    /\ pc = "discover"
    /\ LET got == fetch_page(resp)
           links == IF got.ok THEN FilterLinks(anchors, <<>>) ELSE <<>>
       IN  IF links = <<>>
           THEN /\ pc' = "raised"
                /\ error' = IF got.ok THEN "no_chapter_links" ELSE "base_page"
                /\ session' = "closed"
                /\ UNCHANGED taskvars
           ELSE /\ pc' = "processing"
                /\ chapter_links' = links
                /\ sem_value' = MaxConcurrent
                /\ waiters' \in TaskOrders(Len(links))
                /\ tpc' = [k \in DOMAIN links |-> "waiting"]
                /\ tres' = [k \in DOMAIN links |-> NoResult]
                /\ UNCHANGED <<done_queue, fetched, session, error>>
    /\ UNCHANGED <<run_no, dry_run, metadata, load_warning, disk, ledger_writes,
                   remote, loopvars, disk_at_start, prev_run, envvars>>

\* the responses the base URL can come back with; the a.toc__link anchors of
\* a 200 body are the second argument of extract_chapter_links
RootResponses ==
    { [kind |-> "ok", status |-> StatusOK, page |-> BarePage, body_len |-> 0],
      [kind |-> "ok", status |-> 500, page |-> BarePage, body_len |-> 0],
      [kind |-> "client_error", status |-> 0, page |-> BarePage, body_len |-> 0] }

-----------------------------------------------------------------------------
(* The chapter tasks *)

\* Acquire without the wait for a free slot
AcquireUnbounded(i) ==
    /\ pc = "processing"
    /\ waiters # <<>>
    /\ i = Head(waiters)
    /\ sem_value' = sem_value - 1
    /\ waiters' = Tail(waiters)
    /\ tpc' = [tpc EXCEPT ![i] = "fetching"]
    /\ fetched' = fetched \cup {chapter_links[i].url}
    /\ UNCHANGED <<run_no, pc, dry_run, session, metadata, load_warning, disk,
                   ledger_writes, remote, chapter_links, tres, done_queue,
                   loopvars, error, disk_at_start, prev_run, envvars>>

\* "async with semaphore": the first waiter takes a slot when one is free,
\* and its request goes out
Acquire(i) ==
    /\ pc = "processing"
    /\ waiters # <<>>
    /\ i = Head(waiters)
    /\ sem_value > 0
    /\ sem_value' = sem_value - 1
    /\ waiters' = Tail(waiters)
    /\ tpc' = [tpc EXCEPT ![i] = "fetching"]
    /\ fetched' = fetched \cup {chapter_links[i].url}
    /\ UNCHANGED <<run_no, pc, dry_run, session, metadata, load_warning, disk,
                   ledger_writes, remote, chapter_links, tres, done_queue,
                   loopvars, error, disk_at_start, prev_run, envvars>>

\* the body of _process_chapter once the response is in: extract, hash,
\* compare with the ledger and update it; any exception becomes ScraperError
ChapterResult(i, resp) ==
    LET title == chapter_links[i].title
        url == chapter_links[i].url
        got == fetch_page(resp)
        ext == extract_content(got.page)
        content_hash == calculate_hash(ext.markdown)
        filename == FilenameOf(title)
    IN  IF ~got.ok THEN [NoResult EXCEPT !.err = got.err]
        ELSE IF ~ext.ok THEN [NoResult EXCEPT !.err = "no_content"]
        ELSE IF metadata.shape # "dict" THEN [NoResult EXCEPT !.err = "AttributeError"]
        ELSE [ok |-> TRUE, filename |-> filename, content |-> ext.markdown,
              changed |-> (content_hash # OldHash(metadata, url)), err |-> "none"]

\* UpdateMetadata that leaves the entry alone when the digest did not change
UpdateMetadataIfChanged(md, i, res, now) ==
    LET title == chapter_links[i].title
        url == chapter_links[i].url
    IN  IF ~res.changed THEN md
        ELSE [md EXCEPT !.map = (url :> LedgerEntry(title, res.filename,
                                                    calculate_hash(res.content), now, url))
                                @@ md.map]

\* UpdateMetadata that puts the entry into the ledger as it was loaded, a
\* copy taken before the fetch
UpdateMetadataFromSnapshot(md, i, res, now) ==
    LET title == chapter_links[i].title
        url == chapter_links[i].url
    IN  [md EXCEPT !.map = (url :> LedgerEntry(title, res.filename,
                                               calculate_hash(res.content), now, url))
                           @@ load_metadata(disk_at_start[1]).metadata.map]

\* self.metadata[url] = {...}; datetime.now() is the invocation's number
UpdateMetadata(md, i, res, now) ==
    LET title == chapter_links[i].title
        url == chapter_links[i].url
    IN  [md EXCEPT !.map = (url :> LedgerEntry(title, res.filename,
                                               calculate_hash(res.content), now, url))
                           @@ md.map]

\* process_chapter that releases the slot only when the chapter succeeded
process_chapter_keeps_slot(i, resp) ==
    /\ pc = "processing"
    /\ tpc[i] = "fetching"
    /\ LET res == ChapterResult(i, resp)
       IN  /\ tres' = [tres EXCEPT ![i] = res]
           /\ metadata' = IF res.ok THEN UpdateMetadata(metadata, i, res, run_no)
                          ELSE metadata
           /\ sem_value' = IF res.ok THEN sem_value + 1 ELSE sem_value
    /\ tpc' = [tpc EXCEPT ![i] = "completed"]
    /\ done_queue' = Append(done_queue, i)
    /\ UNCHANGED <<run_no, pc, dry_run, session, load_warning, disk, ledger_writes,
                   remote, chapter_links, waiters, fetched, loopvars, error,
                   disk_at_start, prev_run, envvars>>

\* process_chapter that writes the ledger entry whether the chapter failed or not
process_chapter_updates_first(i, resp) ==
    /\ pc = "processing"
    /\ tpc[i] = "fetching"
    /\ LET res == ChapterResult(i, resp)
       IN  /\ tres' = [tres EXCEPT ![i] = res]
           /\ metadata' = UpdateMetadata(metadata, i, res, run_no)
    /\ tpc' = [tpc EXCEPT ![i] = "completed"]
    /\ sem_value' = sem_value + 1
    /\ done_queue' = Append(done_queue, i)
    /\ UNCHANGED <<run_no, pc, dry_run, session, load_warning, disk, ledger_writes,
                   remote, chapter_links, waiters, fetched, loopvars, error,
                   disk_at_start, prev_run, envvars>>

\* a chapter task from the arrival of its response to its end: the slot is
\* released on success and on failure, and the task joins as_completed's queue
process_chapter(i, resp) ==
    /\ pc = "processing"
    /\ tpc[i] = "fetching"
    /\ LET res == ChapterResult(i, resp)
       IN  /\ tres' = [tres EXCEPT ![i] = res]
           /\ metadata' = IF res.ok THEN UpdateMetadata(metadata, i, res, run_no)
                          ELSE metadata
    /\ tpc' = [tpc EXCEPT ![i] = "completed"]
    /\ sem_value' = sem_value + 1
    /\ done_queue' = Append(done_queue, i)
    /\ UNCHANGED <<run_no, pc, dry_run, session, load_warning, disk, ledger_writes,
                   remote, chapter_links, waiters, fetched, loopvars, error,
                   disk_at_start, prev_run, envvars>>

-----------------------------------------------------------------------------
(* The collection loop of run() *)

\* the first index whose sanitized title gives this filename
OriginalIndex(filename) ==
    LET hits == { j \in Tasks : FilenameOf(chapter_links[j].title) = filename }
    IN  CHOOSE j \in hits : \A k \in hits : j <= k

\* Collect that also dumps the ledger after each chapter
CollectAndSave ==
    /\ pc = "processing"
    /\ done_queue # <<>>
    /\ LET i == Head(done_queue)
           res == tres[i]
       IN  /\ tpc' = [tpc EXCEPT ![i] = "consumed"]
           /\ IF res.ok
              THEN /\ results_dict' =
                        (OriginalIndex(res.filename) :>
                            [filename |-> res.filename, content |-> res.content])
                        @@ results_dict
                   /\ changed_chapters' =
                        IF res.changed THEN Append(changed_chapters, res.filename)
                        ELSE changed_chapters
                   /\ chapter_files' =
                        IF dry_run THEN chapter_files
                        ELSE (res.filename :> res.content) @@ chapter_files
                   /\ ledger_file' = IF dry_run THEN ledger_file ELSE JsonFile(metadata)
                   /\ ledger_writes' = IF dry_run THEN ledger_writes ELSE ledger_writes + 1
              ELSE UNCHANGED <<results_dict, changed_chapters, chapter_files,
                               ledger_file, ledger_writes>>
    /\ done_queue' = Tail(done_queue)
    /\ UNCHANGED <<run_no, pc, dry_run, session, metadata, load_warning,
                   combined_file, remote, chapter_links, sem_value, waiters,
                   tres, fetched, results, error, disk_at_start, prev_run, envvars>>

\* one iteration of "for coro in asyncio.as_completed(tasks)"
Collect ==
    /\ pc = "processing"
    /\ done_queue # <<>>
    /\ LET i == Head(done_queue)
           res == tres[i]
       IN  /\ tpc' = [tpc EXCEPT ![i] = "consumed"]
           /\ IF res.ok
              THEN /\ results_dict' =
                        (OriginalIndex(res.filename) :>
                            [filename |-> res.filename, content |-> res.content])
                        @@ results_dict
                   /\ changed_chapters' =
                        IF res.changed THEN Append(changed_chapters, res.filename)
                        ELSE changed_chapters
                   /\ chapter_files' =
                        IF dry_run THEN chapter_files
                        ELSE (res.filename :> res.content) @@ chapter_files
              ELSE UNCHANGED <<results_dict, changed_chapters, chapter_files>>
    /\ done_queue' = Tail(done_queue)
    /\ UNCHANGED <<run_no, pc, dry_run, session, metadata, load_warning,
                   ledger_file, combined_file, ledger_writes, remote,
                   chapter_links, sem_value, waiters, tres, fetched, results,
                   error, disk_at_start, prev_run, envvars>>

\* a set of indices as the ascending list of them
RECURSIVE SortedSeq(_)
SortedSeq(S) ==
    IF S = {} THEN <<>>
    ELSE LET m == CHOOSE x \in S : \A y \in S : x <= y
         IN  <<m>> \o SortedSeq(S \ {m})

\* [results_dict[i] for i in sorted(results_dict.keys())]
OrderedResults(rd) ==
    LET keys == SortedSeq(DOMAIN rd)
    IN  [k \in DOMAIN keys |-> rd[keys[k]]]

\* the body of the combined document: a heading and the Markdown per chapter
CombinedBody(res) ==
    [k \in DOMAIN res |-> [heading |-> HeadingOf(res[k].filename),
                           content |-> res[k].content]]

\* after the loop: the ordered results and _create_combined_file
create_combined_file ==
    /\ pc = "processing"
    /\ \A i \in Tasks : tpc[i] = "consumed"
    /\ results' = OrderedResults(results_dict)
    /\ combined_file' =
         IF dry_run THEN combined_file
         ELSE [exists |-> TRUE, body |-> CombinedBody(OrderedResults(results_dict))]
    /\ pc' = "save"
    /\ UNCHANGED <<run_no, dry_run, session, metadata, load_warning, ledger_file,
                   chapter_files, ledger_writes, remote, taskvars, results_dict,
                   changed_chapters, error, disk_at_start, prev_run, envvars>>

-----------------------------------------------------------------------------
(* _save_metadata, the report and the end of run() *)

\* dry run: nothing is written
SaveSkipped ==
    /\ pc = "save"
    /\ dry_run
    /\ pc' = "report"
    /\ UNCHANGED <<run_no, dry_run, session, metadata, load_warning, disk,
                   ledger_writes, remote, taskvars, loopvars, error, disk_at_start, prev_run, envvars>>

\* SaveOpen without the dry-run check of _save_metadata
SaveOpenInDryRun ==
    /\ pc = "save"
    /\ ledger_file' = PartialFile
    /\ ledger_writes' = ledger_writes + 1
    /\ pc' = "saving"
    /\ UNCHANGED <<run_no, dry_run, session, metadata, load_warning,
                   chapter_files, combined_file, remote, taskvars, loopvars,
                   error, disk_at_start, prev_run, envvars>>

\* open(metadata_file, 'w'): the file is truncated
SaveOpen ==
    /\ pc = "save"
    /\ ~dry_run
    /\ ledger_file' = PartialFile
    /\ ledger_writes' = ledger_writes + 1
    /\ pc' = "saving"
    /\ UNCHANGED <<run_no, dry_run, session, metadata, load_warning,
                   chapter_files, combined_file, remote, taskvars, loopvars,
                   error, disk_at_start, prev_run, envvars>>

\* SaveWrite that dumps the ledger as it was loaded, without this run's entries
SaveWriteLoaded ==
    /\ pc = "saving"
    /\ ledger_file' = JsonFile(load_metadata(disk_at_start[1]).metadata)
    /\ pc' = "report"
    /\ UNCHANGED <<run_no, dry_run, session, metadata, load_warning,
                   chapter_files, combined_file, ledger_writes, remote, taskvars,
                   loopvars, error, disk_at_start, prev_run, envvars>>

\* json.dump and the close of the file
SaveWrite ==
    /\ pc = "saving"
    /\ ledger_file' = JsonFile(metadata)
    /\ pc' = "report"
    /\ UNCHANGED <<run_no, dry_run, session, metadata, load_warning,
                   chapter_files, combined_file, ledger_writes, remote, taskvars,
                   loopvars, error, disk_at_start, prev_run, envvars>>

\* open() raises IOError: a warning, the file stays as it was
SaveFailed ==
    /\ pc = "save"
    /\ ~dry_run
    /\ pc' = "report"
    /\ UNCHANGED <<run_no, dry_run, session, metadata, load_warning, disk,
                   ledger_writes, remote, taskvars, loopvars, error, disk_at_start, prev_run, envvars>>

\* _report_results, then "finally: _close_session()"
Finish ==
    /\ pc = "report"
    /\ session' = "closed"
    /\ pc' = "done"
    /\ UNCHANGED <<run_no, dry_run, metadata, load_warning, disk, ledger_writes,
                   remote, taskvars, loopvars, error, disk_at_start, prev_run, envvars>>

-----------------------------------------------------------------------------
(* An interrupt (SIGINT) while run() is at work.  Up to Python 3.10 the      *)
(* signal raises KeyboardInterrupt where the process stands; from 3.11 on   *)
(* asyncio.run cancels the main task, which takes effect where run() is     *)
(* suspended, or at its next suspension when it is executing.  run.py asks  *)
(* for Python 3.7 or higher, so the program meets both.                     *)

InRun == pc \in {"discover", "processing", "save", "saving", "report"}

\* run() is suspended: in the request for the root page, or in "await coro"
\* while as_completed's queue is empty and chapters are still out
Suspended ==
    \/ pc = "discover"
    \/ /\ pc = "processing"
       /\ done_queue = <<>>
       /\ \E i \in Tasks : tpc[i] # "consumed"

\* the exception leaves run() through "finally: _close_session()"; the
\* chapter tasks still out are cancelled and give their slots back
Unwind ==
    /\ pc' = "interrupted"
    /\ sigint' = "handled"
    /\ session' = "closed"
    /\ tpc' = [i \in Tasks |-> IF tpc[i] \in {"waiting", "fetching"}
                                THEN "cancelled" ELSE tpc[i]]
    /\ waiters' = <<>>
    /\ sem_value' = sem_value + Cardinality(InFlight)

\* KeyboardInterrupt where the process stands, or the cancellation of a
\* suspended run()
interrupt_unwind ==
    /\ sigint = "none"
    /\ InRun
    /\ Unwind
    /\ UNCHANGED <<run_no, dry_run, metadata, load_warning, disk, ledger_writes,
                   remote, chapter_links, tres, done_queue, fetched, loopvars,
                   error, disk_at_start, prev_run, fetch_failure, legacy,
                   toc_links>>

\* KeyboardInterrupt between open(chapter_file, 'w') and f.write(content) of
\* the collection loop: the file is there, truncated
interrupt_in_chapter_write ==
    /\ sigint = "none"
    /\ pc = "processing"
    /\ done_queue # <<>>
    /\ tres[Head(done_queue)].ok
    /\ ~dry_run
    /\ chapter_files' = (tres[Head(done_queue)].filename :> <<>>) @@ chapter_files
    /\ Unwind
    /\ UNCHANGED <<run_no, dry_run, metadata, load_warning, ledger_file,
                   combined_file, ledger_writes, remote, chapter_links, tres,
                   done_queue, fetched, loopvars, error, disk_at_start, prev_run,
                   fetch_failure, legacy, toc_links>>

\* the main task is cancelled while run() executes synchronous code: the
\* request is noted and run() goes on to its next suspension
interrupt_deferred ==
    /\ sigint = "none"
    /\ InRun
    /\ ~Suspended
    /\ sigint' = "pending"
    /\ UNCHANGED <<run_no, pc, dry_run, session, metadata, load_warning, disk,
                   ledger_writes, remote, taskvars, loopvars, error,
                   disk_at_start, prev_run, fetch_failure, legacy, toc_links>>

\* the noted cancellation reaches run() at its next suspension
deliver_cancel ==
    /\ sigint = "pending"
    /\ Suspended
    /\ Unwind
    /\ UNCHANGED <<run_no, dry_run, metadata, load_warning, disk, ledger_writes,
                   remote, chapter_links, tres, done_queue, fetched, loopvars,
                   error, disk_at_start, prev_run, fetch_failure, legacy,
                   toc_links>>

-----------------------------------------------------------------------------
(* main() of src/main.py: list-links mode and the exit status *)

\* the responses the base URL can come back with in full: error bodies of
\* several lengths, a refused connection, a request that timed out
ListResponses ==
    RootResponses \cup
    { [kind |-> "ok", status |-> 404, page |-> BarePage, body_len |-> 150],
      [kind |-> "ok", status |-> 500, page |-> BarePage, body_len |-> 250],
      [kind |-> "timeout", status |-> 0, page |-> BarePage, body_len |-> 0] }

\* args.list_links: await scraper._create_session()
list_create_session ==
    /\ pc = "constructed"
    /\ session' = "open"
    /\ pc' = "list_discover"
    /\ UNCHANGED <<run_no, dry_run, metadata, load_warning, disk, ledger_writes,
                   remote, taskvars, loopvars, error, disk_at_start, prev_run,
                   envvars>>

\* list_links that prints an empty list instead of failing
list_links_or_empty(resp, anchors) ==
    /\ pc = "list_discover"
    /\ LET got == fetch_page(resp)
           links == IF got.ok THEN FilterLinks(anchors, <<>>) ELSE <<>>
       IN  /\ pc' = IF got.ok THEN "listed" ELSE "list_raised"
           /\ error' = IF got.ok THEN "none" ELSE "base_page"
           /\ fetch_failure' = fetch_error(resp)
           /\ toc_links' = IF got.ok THEN anchors ELSE <<>>
           /\ chapter_links' = links
    /\ UNCHANGED <<run_no, dry_run, session, metadata, load_warning, disk,
                   ledger_writes, remote, sem_value, waiters, tpc, tres,
                   done_queue, fetched, loopvars, disk_at_start, prev_run,
                   sigint, legacy>>

\* links = await scraper.extract_chapter_links() and the listing; a
\* ScraperError goes to main()'s "except Exception", past _close_session()
list_links(resp, anchors) ==
    /\ pc = "list_discover"
    /\ LET got == fetch_page(resp)
           links == IF got.ok THEN FilterLinks(anchors, <<>>) ELSE <<>>
       IN  /\ pc' = IF links = <<>> THEN "list_raised" ELSE "listed"
           /\ error' = IF links # <<>> THEN "none"
                        ELSE IF got.ok THEN "no_chapter_links" ELSE "base_page"
           /\ fetch_failure' = fetch_error(resp)
           /\ toc_links' = IF got.ok THEN anchors ELSE <<>>
           /\ chapter_links' = links
    /\ UNCHANGED <<run_no, dry_run, session, metadata, load_warning, disk,
                   ledger_writes, remote, sem_value, waiters, tpc, tres,
                   done_queue, fetched, loopvars, disk_at_start, prev_run,
                   sigint, legacy>>

\* await scraper._close_session() after the listing
list_close ==
    /\ pc = "listed"
    /\ session' = "closed"
    /\ pc' = "done"
    /\ UNCHANGED <<run_no, dry_run, metadata, load_warning, disk, ledger_writes,
                   remote, taskvars, loopvars, error, disk_at_start, prev_run,
                   envvars>>

\* the status the process ends with: main() returns after run() or the
\* listing, sys.exit(1) in "except Exception", the traceback of an exception
\* raised by the constructor, which main() calls outside its try; -1 while
\* the process runs
exit_status ==
    CASE pc = "done" -> 0
      [] pc \in {"raised", "list_raised", "init_raised"} -> 1
      [] OTHER -> -1

-----------------------------------------------------------------------------
(* The embedded scraper of src/run.py (run_embedded_scraper): no ledger, a  *)
(* semaphore of five, and a collection loop without a try                   *)

\* asyncio.Semaphore(5) of the embedded run()
EmbeddedMaxConcurrent == 5

\* urljoin(self.base_url, href) for an href that begins with a slash; every
\* other href is taken as it stands
EmbeddedResolveHref(href) ==
    IF href.kind = "root" THEN [host |-> base_url.host, path |-> href.path]
    ELSE [host |-> href.host, path |-> href.path]

\* "/the-omarchy-manual/" in full_href: in an href taken as it stands the
\* segment needs a slash before it as well
EmbeddedInManual(url) ==
    \E k \in 1..(Len(url.path) - 1) :
        /\ url.path[k] = ManualSegment
        /\ (k > 1 \/ url.host # "")

\* the loop over toc_links of the embedded extract_chapter_links: no check
\* for a URL already taken
RECURSIVE EmbeddedFilterLinks(_)
EmbeddedFilterLinks(anchors) ==
    IF anchors = <<>> THEN <<>>
    ELSE LET link == Head(anchors)
             clean_title == CleanTitle(link.text)
             full_href == EmbeddedResolveHref(link.href)
             keep == /\ link.href.kind # "none"
                     /\ link.text # <<>>
                     /\ EmbeddedInManual(full_href)
                     /\ clean_title \notin {<<>>, OpenWord}
         IN  (IF keep THEN <<[title |-> clean_title, url |-> full_href]>> ELSE <<>>)
             \o EmbeddedFilterLinks(Tail(anchors))

\* soup.find("main") or soup.find("body")
embedded_main_element(page) ==
    IF "main" \in DOMAIN page.regions THEN "main"
    ELSE IF "body" \in DOMAIN page.regions THEN "body"
    ELSE "none"

\* the embedded process_chapter once the response is in: fetch_page raises
\* for a status other than 200 and lets transport errors through,
\* extract_content raises without a main or body element
EmbeddedChapterResult(i, resp) ==
    LET element == embedded_main_element(resp.page)
    IN  IF resp.kind # "ok" THEN [NoResult EXCEPT !.err = "ClientError"]
        ELSE IF resp.status # StatusOK THEN [NoResult EXCEPT !.err = "HTTP"]
        ELSE IF element = "none" THEN [NoResult EXCEPT !.err = "no_content"]
        ELSE [ok |-> TRUE,
              filename |-> FilenameOf(chapter_links[i].title),
              content |-> clean_markdown(markdownify(
                              decompose_unwanted(resp.page.regions[element]))),
              changed |-> FALSE, err |-> "none"]

\* OmarchyScraper(args.output_dir, args.dry_run) of the embedded script
embedded_construct(d) ==
    /\ pc = "start"
    /\ dry_run' = d
    /\ pc' = "embedded_constructed"
    /\ UNCHANGED <<run_no, session, metadata, load_warning, disk, ledger_writes,
                   remote, taskvars, loopvars, error, disk_at_start, prev_run,
                   envvars>>

\* await self.create_session(), before the try of run()
embedded_create_session ==
    /\ pc = "embedded_constructed"
    /\ session' = "open"
    /\ pc' = "embedded_discover"
    /\ UNCHANGED <<run_no, dry_run, metadata, load_warning, disk, ledger_writes,
                   remote, taskvars, loopvars, error, disk_at_start, prev_run,
                   envvars>>

\* extract_chapter_links, the semaphore and the tasks; an exception of
\* fetch_page leaves run() through "finally: close_session()"; a page
\* without chapters is no error here
embedded_extract_chapter_links(resp, anchors) ==
    /\ pc = "embedded_discover"
    /\ LET links == EmbeddedFilterLinks(anchors)
       IN  IF resp.kind # "ok" \/ resp.status # StatusOK
           THEN /\ pc' = "embedded_raised"
                /\ error' = "base_page"
                /\ session' = "closed"
                /\ UNCHANGED taskvars
           ELSE /\ pc' = "embedded_processing"
                /\ chapter_links' = links
                /\ sem_value' = EmbeddedMaxConcurrent
                /\ waiters' \in TaskOrders(Len(links))
                /\ tpc' = [k \in DOMAIN links |-> "waiting"]
                /\ tres' = [k \in DOMAIN links |-> NoResult]
                /\ UNCHANGED <<done_queue, fetched, session, error>>
    /\ UNCHANGED <<run_no, dry_run, metadata, load_warning, disk, ledger_writes,
                   remote, loopvars, disk_at_start, prev_run, envvars>>

\* "async with semaphore" of the embedded process_chapter
embedded_acquire(i) ==
    /\ pc = "embedded_processing"
    /\ waiters # <<>>
    /\ i = Head(waiters)
    /\ sem_value > 0
    /\ sem_value' = sem_value - 1
    /\ waiters' = Tail(waiters)
    /\ tpc' = [tpc EXCEPT ![i] = "fetching"]
    /\ fetched' = fetched \cup {chapter_links[i].url}
    /\ UNCHANGED <<run_no, pc, dry_run, session, metadata, load_warning, disk,
                   ledger_writes, remote, chapter_links, tres, done_queue,
                   loopvars, error, disk_at_start, prev_run, envvars>>

\* an embedded chapter task from the arrival of its response to its end
embedded_process_chapter(i, resp) ==
    /\ pc = "embedded_processing"
    /\ tpc[i] = "fetching"
    /\ tres' = [tres EXCEPT ![i] = EmbeddedChapterResult(i, resp)]
    /\ tpc' = [tpc EXCEPT ![i] = "completed"]
    /\ sem_value' = sem_value + 1
    /\ done_queue' = Append(done_queue, i)
    /\ UNCHANGED <<run_no, pc, dry_run, session, metadata, load_warning, disk,
                   ledger_writes, remote, chapter_links, waiters, fetched,
                   loopvars, error, disk_at_start, prev_run, envvars>>

\* embedded_collect that prints the failure of a chapter and goes on
embedded_collect_isolating ==
    /\ pc = "embedded_processing"
    /\ done_queue # <<>>
    /\ LET i == Head(done_queue)
           res == tres[i]
       IN  /\ tpc' = [tpc EXCEPT ![i] = "consumed"]
           /\ IF res.ok
              THEN /\ results_dict' =
                        (OriginalIndex(res.filename) :>
                            [filename |-> res.filename, content |-> res.content])
                        @@ results_dict
                   /\ chapter_files' =
                        IF dry_run THEN chapter_files
                        ELSE (res.filename :> res.content) @@ chapter_files
              ELSE UNCHANGED <<results_dict, chapter_files>>
    /\ done_queue' = Tail(done_queue)
    /\ UNCHANGED <<run_no, pc, dry_run, session, metadata, load_warning,
                   ledger_file, combined_file, ledger_writes, remote,
                   chapter_links, sem_value, waiters, tres, fetched,
                   changed_chapters, results, error, disk_at_start, prev_run,
                   envvars>>

\* one iteration of the embedded "for coro in asyncio.as_completed(tasks)":
\* "filename, content = await coro" stands in no try, so the exception of a
\* failed chapter leaves run() through "finally: close_session()", and the
\* tasks still out are cancelled when asyncio.run() ends
embedded_collect ==
    /\ pc = "embedded_processing"
    /\ done_queue # <<>>
    /\ LET i == Head(done_queue)
           res == tres[i]
       IN  IF res.ok
           THEN /\ tpc' = [tpc EXCEPT ![i] = "consumed"]
                /\ results_dict' =
                        (OriginalIndex(res.filename) :>
                            [filename |-> res.filename, content |-> res.content])
                        @@ results_dict
                /\ chapter_files' =
                        IF dry_run THEN chapter_files
                        ELSE (res.filename :> res.content) @@ chapter_files
                /\ UNCHANGED <<pc, session, error, waiters, sem_value>>
           ELSE /\ tpc' = [j \in Tasks |->
                            IF j = i THEN "consumed"
                            ELSE IF tpc[j] \in {"waiting", "fetching"} THEN "cancelled"
                            ELSE tpc[j]]
                /\ pc' = "embedded_raised"
                /\ error' = res.err
                /\ session' = "closed"
                /\ waiters' = <<>>
                /\ sem_value' = sem_value + Cardinality(InFlight)
                /\ UNCHANGED <<results_dict, chapter_files>>
    /\ done_queue' = Tail(done_queue)
    /\ UNCHANGED <<run_no, dry_run, metadata, load_warning, ledger_file,
                   combined_file, ledger_writes, remote, chapter_links, tres,
                   fetched, changed_chapters, results, disk_at_start, prev_run,
                   envvars>>

\* after the loop: the ordered results, the combined file unless the run is
\* a dry run, and "finally: close_session()"
embedded_create_combined_file ==
    /\ pc = "embedded_processing"
    /\ \A i \in Tasks : tpc[i] = "consumed"
    /\ results' = OrderedResults(results_dict)
    /\ combined_file' =
         IF dry_run THEN combined_file
         ELSE [exists |-> TRUE, body |-> CombinedBody(OrderedResults(results_dict))]
    /\ session' = "closed"
    /\ pc' = "embedded_done"
    /\ UNCHANGED <<run_no, dry_run, metadata, load_warning, ledger_file,
                   chapter_files, ledger_writes, remote, taskvars, results_dict,
                   changed_chapters, error, disk_at_start, prev_run, envvars>>

-----------------------------------------------------------------------------
(* Between invocations *)

Ended == pc \in {"done", "raised", "init_raised"}

\* the manual's author edits a chapter between two invocations
RemoteChange(u) ==
    /\ Ended
    /\ run_no < MaxRuns
    /\ remote[u] = 1
    /\ remote' = [remote EXCEPT ![u] = 2]
    /\ UNCHANGED <<run_no, pc, dry_run, session, metadata, load_warning, disk,
                   ledger_writes, taskvars, loopvars, error, disk_at_start, prev_run, envvars>>

\* the program is started again: a new process, the same disk
NextRun ==
    /\ Ended
    /\ run_no < MaxRuns
    /\ prev_run' = [ran |-> TRUE, done |-> (pc = "done"), dry_run |-> dry_run,
                    saved |-> (pc = "done" /\ ledger_writes > 0),
                    ok |-> { chapter_links[i].url : i \in Succeeded }]
    /\ run_no' = run_no + 1
    /\ pc' = "start"
    /\ dry_run' = FALSE
    /\ session' = "none"
    /\ metadata' = EmptyLedger
    /\ load_warning' = FALSE
    /\ ledger_writes' = 0
    /\ chapter_links' = <<>>
    /\ sem_value' = 0
    /\ waiters' = <<>>
    /\ tpc' = <<>>
    /\ tres' = <<>>
    /\ done_queue' = <<>>
    /\ results_dict' = EmptyMap
    /\ changed_chapters' = <<>>
    /\ results' = <<>>
    /\ fetched' = {}
    /\ error' = "none"
    /\ disk_at_start' = disk
    /\ sigint' = "none"
    /\ UNCHANGED <<disk, remote, fetch_failure, legacy, toc_links>>

\* the process dies where it stands; the disk stays as it is
Crash ==
    /\ ~Ended
    /\ pc # "crashed"
    /\ pc' = "crashed"
    /\ UNCHANGED <<run_no, dry_run, session, metadata, load_warning, disk,
                   ledger_writes, remote, taskvars, loopvars, error,
                   disk_at_start, prev_run, envvars>>

-----------------------------------------------------------------------------
(* One invocation of the program *)

Next ==
    \/ \E d \in BOOLEAN : Construct(d)
    \/ create_session
    \/ \E resp \in RootResponses, anchors \in RootPages :
            extract_chapter_links(resp, anchors)
    \/ \E i \in Tasks : Acquire(i)
    \/ \E i \in Tasks : \E resp \in Responses(chapter_links[i].url) :
            process_chapter(i, resp)
    \/ Collect
    \/ create_combined_file
    \/ SaveSkipped
    \/ SaveOpen
    \/ SaveWrite
    \/ SaveFailed
    \/ Finish

Spec == Init /\ [][Next]_vars

(* One invocation that can die at any point *)

NextCrash ==
    \/ \E d \in BOOLEAN : Construct(d)
    \/ create_session
    \/ \E resp \in RootResponses, anchors \in RootPages :
            extract_chapter_links(resp, anchors)
    \/ \E i \in Tasks : Acquire(i)
    \/ \E i \in Tasks : \E resp \in Responses(chapter_links[i].url) :
            process_chapter(i, resp)
    \/ Collect
    \/ create_combined_file
    \/ SaveSkipped
    \/ SaveOpen
    \/ SaveWrite
    \/ SaveFailed
    \/ Finish
    \/ Crash

SpecCrash == Init /\ [][NextCrash]_vars

(* Invocations one after the other, the manual changing in between *)

NextRuns ==
    \/ \E d \in BOOLEAN : Construct(d)
    \/ create_session
    \/ \E resp \in RootResponses, anchors \in PagesUpTo(MaxRunAnchors) :
            extract_chapter_links(resp, anchors)
    \/ \E i \in Tasks : Acquire(i)
    \/ \E i \in Tasks : \E resp \in Responses(chapter_links[i].url) :
            process_chapter(i, resp)
    \/ Collect
    \/ create_combined_file
    \/ SaveSkipped
    \/ SaveOpen
    \/ SaveWrite
    \/ SaveFailed
    \/ Finish
    \/ \E u \in ChapterUrls : RemoteChange(u)
    \/ NextRun

SpecRuns == Init /\ [][NextRuns]_vars

(* One invocation that an interrupt can reach; while a cancellation is      *)
(* noted and not yet delivered run() is executing, and no chapter task runs *)

NextInterrupt ==
    \/ \E d \in BOOLEAN : Construct(d)
    \/ create_session
    \/ \E resp \in RootResponses, anchors \in RootPages :
            extract_chapter_links(resp, anchors)
    \/ sigint # "pending" /\ \E i \in Tasks : Acquire(i)
    \/ sigint # "pending" /\
            \E i \in Tasks : \E resp \in Responses(chapter_links[i].url) :
                process_chapter(i, resp)
    \/ Collect
    \/ create_combined_file
    \/ SaveSkipped
    \/ SaveOpen
    \/ SaveWrite
    \/ SaveFailed
    \/ Finish
    \/ interrupt_unwind
    \/ interrupt_in_chapter_write
    \/ interrupt_deferred
    \/ deliver_cancel

SpecInterrupt == Init /\ [][NextInterrupt]_vars

(* One invocation on a manual of a single chapter *)

NextChapter ==
    \/ \E d \in BOOLEAN : Construct(d)
    \/ create_session
    \/ \E resp \in RootResponses, anchors \in ChapterPages :
            extract_chapter_links(resp, anchors)
    \/ \E i \in Tasks : Acquire(i)
    \/ \E i \in Tasks : \E resp \in Responses(chapter_links[i].url) :
            process_chapter(i, resp)
    \/ Collect
    \/ create_combined_file
    \/ SaveSkipped
    \/ SaveOpen
    \/ SaveWrite
    \/ SaveFailed
    \/ Finish

SpecChapter == InitChapter /\ [][NextChapter]_vars

(* One invocation with --list-links *)

NextList ==
    \/ \E d \in BOOLEAN : Construct(d)
    \/ list_create_session
    \/ \E resp \in ListResponses, anchors \in ListPages : list_links(resp, anchors)
    \/ list_close

SpecList == Init /\ [][NextList]_vars

(* One invocation of the embedded scraper of run.py *)

NextEmbedded ==
    \/ \E d \in BOOLEAN : embedded_construct(d)
    \/ embedded_create_session
    \/ \E resp \in RootResponses, anchors \in RootPages :
            embedded_extract_chapter_links(resp, anchors)
    \/ \E i \in Tasks : embedded_acquire(i)
    \/ \E i \in Tasks : \E resp \in Responses(chapter_links[i].url) :
            embedded_process_chapter(i, resp)
    \/ embedded_collect
    \/ embedded_create_combined_file

SpecEmbedded == Init /\ [][NextEmbedded]_vars

(* One invocation of the legacy command line *)

NextLegacy ==
    \/ legacy_import
    \/ \E a \in CommandLines : legacy_parse_args(a)
    \/ legacy_update_config
    \/ legacy_run

SpecLegacy == Init /\ [][NextLegacy]_vars

-----------------------------------------------------------------------------
(* The run, under the fairness of the event loop: a ready task is run, a   *)
(* request returns within the request timeout, and run() goes on           *)

Fairness ==
    /\ WF_vars(\E i \in Tasks : Acquire(i))
    /\ \A i \in 1..MaxAnchors :
            WF_vars(i \in Tasks /\ \E resp \in Responses(chapter_links[i].url) :
                                        process_chapter(i, resp))
    /\ WF_vars(Collect)
    /\ WF_vars(create_combined_file)
    /\ WF_vars(SaveSkipped \/ SaveOpen \/ SaveFailed)
    /\ WF_vars(SaveWrite)
    /\ WF_vars(Finish)

\* the ledger file does not bear on whether a run ends: one run that finds
\* no ledger and one that finds the ledger of an earlier invocation
FairInit == Init /\ ledger_file \in {MissingFile, JsonFile(StaleLedger)}

FairSpec == FairInit /\ [][Next]_vars /\ Fairness

-----------------------------------------------------------------------------
(* Properties *)

AfterLoop == pc \in {"save", "saving", "report", "done"}
UrlOf(i) == chapter_links[i].url

\* C1: the number of chapter tasks between slot acquisition and slot release
\* never exceeds the configured concurrency limit
C1_SlotsBounded ==
    /\ Cardinality(InFlight) <= MaxConcurrent
    /\ pc = "processing" => sem_value = MaxConcurrent - Cardinality(InFlight)

\* C1 witness: every slot is taken while another chapter waits for one
C1_Witness ==
    /\ Cardinality(InFlight) = MaxConcurrent
    /\ waiters # <<>>

\* C2: the results handed to the combined file are the successful chapters in
\* discovery order, each position carrying the Markdown of its own chapter
C2_Original ==
    AfterLoop =>
        LET idx == SortedSeq(Succeeded)
        IN  results = [k \in DOMAIN idx |->
                          [filename |-> tres[idx[k]].filename,
                           content |-> tres[idx[k]].content]]

\* C3: whatever chapters fail, run() reaches the combined file and the ledger
\* save, with one result per chapter that succeeded and none for a failed one
C3_Original ==
    /\ (pc = "processing" /\ \A i \in Tasks : tpc[i] = "consumed")
            => ENABLED create_combined_file
    /\ AfterLoop =>
            /\ Len(results) = Cardinality(Succeeded)
            /\ \A i \in Succeeded :
                    \E k \in DOMAIN results : results[k].content = tres[i].content
            /\ \A k \in DOMAIN results :
                    \E i \in Succeeded :
                        results[k] = [filename |-> tres[i].filename,
                                      content |-> tres[i].content]

\* C4: with every request answered in the end, every chapter completes or
\* fails and run() reaches its end with every slot released
C4_Terminates ==
    (pc = "processing") ~>
        (/\ pc = "done"
         /\ \A i \in Tasks : tpc[i] = "consumed" /\ tres[i] # NoResult
         /\ InFlight = {}
         /\ sem_value = MaxConcurrent)

\* C4 witness: a run with more chapters than slots, one of them failed, ended
C4_Witness ==
    /\ pc = "done"
    /\ Len(chapter_links) > MaxConcurrent
    /\ Failed # {}
    /\ Succeeded # {}
    /\ sem_value = MaxConcurrent

\* C5: a successful chapter overwrites the ledger entry of its URL with the
\* new title, filename, digest and timestamp, and is flagged changed exactly
\* when the new digest differs from the one stored before (none stored: changed)
C5_CompareAndUpdate ==
    [][\A i \in Tasks :
            (tpc[i] = "fetching" /\ tpc'[i] = "completed" /\ tres'[i].ok) =>
                LET url == UrlOf(i)
                    digest == calculate_hash(tres'[i].content)
                IN  /\ url \in DOMAIN metadata'.map
                    /\ metadata'.map[url] =
                          LedgerEntry(chapter_links[i].title, tres'[i].filename,
                                      digest, run_no, url)
                    /\ tres'[i].changed =
                          (url \notin DOMAIN metadata.map \/ metadata.map[url].hash # digest)
                    /\ \A v \in DOMAIN metadata.map \ {url} :
                          v \in DOMAIN metadata'.map /\ metadata'.map[v] = metadata.map[v]
      ]_vars

\* C5 witness: a chapter whose digest equals the stored one is not flagged,
\* and its entry carries the new title and timestamp all the same
C5_Witness ==
    \E i \in Succeeded :
        /\ ~tres[i].changed
        /\ UrlOf(i) \in DOMAIN disk_at_start[1].map
        /\ metadata.map[UrlOf(i)].last_updated = run_no
        /\ metadata.map[UrlOf(i)].title # disk_at_start[1].map[UrlOf(i)].title
        /\ \E j \in Succeeded : tres[j].changed

\* C6: two completed invocations in a row, the server holding and serving the
\* same chapter pages in both: the second one reports no changed chapter
C6_Original ==
    (/\ prev_run.ran /\ prev_run.done
     /\ pc = "done"
     /\ \A u \in ChapterUrls : remote[u] = 1
     /\ \A i \in Succeeded : UrlOf(i) \in prev_run.ok)
        => changed_chapters = <<>>

\* C6 as amended: when the first invocation was no dry run and saved its
\* ledger, the second flags no chapter that succeeded in the first, and
\* reports none at all when every chapter it processed had succeeded before
C6_SecondRunUnchanged ==
    (prev_run.ran /\ prev_run.saved /\ \A u \in ChapterUrls : remote[u] = 1) =>
        /\ \A i \in Succeeded : UrlOf(i) \in prev_run.ok => ~tres[i].changed
        /\ (pc = "done" /\ \A i \in Succeeded : UrlOf(i) \in prev_run.ok)
                => changed_chapters = <<>>

\* C6 witness: a second invocation that processed chapters and reported none
C6_Witness ==
    /\ prev_run.ran
    /\ prev_run.saved
    /\ \A u \in ChapterUrls : remote[u] = 1
    /\ pc = "done"
    /\ Cardinality(Succeeded) > 1
    /\ \A i \in Succeeded : UrlOf(i) \in prev_run.ok
    /\ changed_chapters = <<>>

\* C7: with the ledger file missing or malformed, construction does not fail,
\* the ledger starts empty and every chapter processed counts as changed
C7_Original ==
    (pc # "start" /\ disk_at_start[1].kind \in {"missing", "partial", "undecodable"}) =>
        /\ pc # "init_raised"
        /\ pc = "constructed" => metadata = EmptyLedger
        /\ \A i \in Succeeded : tres[i].changed

\* C8: a dry run leaves every chapter file, the combined file and the ledger
\* file as they were, and still requests, extracts and hashes every chapter
C8_DryRunWritesNothing ==
    dry_run =>
        /\ disk = disk_at_start
        /\ ledger_writes = 0
        /\ pc = "done" =>
              /\ fetched = SeqUrls(chapter_links)
              /\ \A i \in Tasks : tpc[i] = "consumed"
              /\ \A i \in Succeeded : tres[i].content # <<>>
              /\ Len(results) = Cardinality(DOMAIN results_dict)

\* C8 witness: a finished dry run with chapters processed and flagged changed
C8_Witness ==
    /\ dry_run
    /\ pc = "done"
    /\ Cardinality(Succeeded) > 1
    /\ Failed # {}
    /\ changed_chapters # <<>>
    /\ results # <<>>

\* C9: a process that dies during the ledger save leaves on disk the complete
\* previous ledger or the complete new one
C9_Original ==
    pc = "crashed" =>
        \/ ledger_file = disk_at_start[1]
        \/ ledger_file = JsonFile(metadata)

\* C10: when discovery fails, run() ends there: the error goes to the caller,
\* no chapter page was requested and no file was written
C10_DiscoveryFailureAborts ==
    (pc \notin {"start", "constructed", "discover", "init_raised"} /\ chapter_links = <<>>) =>
        /\ pc = "raised"
        /\ error \in {"base_page", "no_chapter_links"}
        /\ fetched = {}
        /\ disk = disk_at_start
        /\ ledger_writes = 0
        /\ session = "closed"

\* C10 witness: the root page was fetched and held no chapter link
C10_Witness ==
    /\ pc = "raised"
    /\ error = "no_chapter_links"
    /\ ~dry_run
    /\ disk_at_start[1].kind = "json"

\* C11: a run that discovered chapters exits with success when at least one
\* chapter succeeded and with failure when none did; a run that discovered
\* no chapter exits with failure
C11_Original ==
    (pc \in {"done", "raised"}) =>
        /\ (chapter_links # <<>> /\ Succeeded # {}) => exit_status = 0
        /\ (chapter_links # <<>> /\ Succeeded = {}) => exit_status # 0
        /\ chapter_links = <<>> => exit_status # 0

\* an anchor the filter of extract_chapter_links lets through, duplicates aside
Qualifies(a) ==
    /\ a.href.kind # "none"
    /\ a.text # <<>>
    /\ InManual(ResolveHref(a.href))
    /\ CleanTitle(a.text) \notin {<<>>, OpenWord}

\* the position in toc_links of the first qualifying anchor that resolves to url
FirstPos(url) ==
    CHOOSE j \in DOMAIN toc_links :
        /\ Qualifies(toc_links[j]) /\ ResolveHref(toc_links[j].href) = url
        /\ \A h \in 1..(j - 1) :
                ~(Qualifies(toc_links[h]) /\ ResolveHref(toc_links[h].href) = url)

\* the list is the qualifying anchors in document order, one per URL, each
\* URL under the title of the first qualifying anchor that resolves to it
DiscoveryInOrder ==
    pc = "listed" =>
        /\ SeqUrls(chapter_links) =
              { ResolveHref(toc_links[j].href) :
                    j \in { h \in DOMAIN toc_links : Qualifies(toc_links[h]) } }
        /\ \A k, l \in DOMAIN chapter_links :
              k # l => chapter_links[k].url # chapter_links[l].url
        /\ \A k \in DOMAIN chapter_links :
              /\ InManual(chapter_links[k].url)
              /\ chapter_links[k].title =
                    CleanTitle(toc_links[FirstPos(chapter_links[k].url)].text)
        /\ \A k, l \in DOMAIN chapter_links :
              k < l => FirstPos(chapter_links[k].url) < FirstPos(chapter_links[l].url)

\* C12: the entries discovery returns have pairwise distinct, absolute URLs
\* inside the manual, in document order, each URL under the first qualifying
\* anchor that resolves to it
C12_Original ==
    /\ DiscoveryInOrder
    /\ pc = "listed" =>
            \A k \in DOMAIN chapter_links : chapter_links[k].url.host # ""

\* C13: extract_chapter_links returns no empty list; a root page without a
\* qualifying anchor makes it fail with the discovery error
C13_NeverEmpty ==
    /\ pc \in {"listed", "done"} => chapter_links # <<>>
    /\ (pc = "list_raised" /\ fetch_failure = NoFailure) =>
            /\ error = "no_chapter_links"
            /\ \A j \in DOMAIN toc_links : ~Qualifies(toc_links[j])
            /\ exit_status = 1
    /\ (pc \in {"listed", "done"}) =>
            \E j \in DOMAIN toc_links : Qualifies(toc_links[j])

\* C13 witness: a root page whose anchors are all there and all rejected
C13_Witness ==
    /\ pc = "list_raised"
    /\ error = "no_chapter_links"
    /\ Len(toc_links) = MaxListAnchors
    /\ \E j \in DOMAIN toc_links : toc_links[j].text = OpenWord
    /\ \E j \in DOMAIN toc_links : ~InManual(ResolveHref(toc_links[j].href))

\* the characters of a string
Chars(str) == { str[k] : k \in DOMAIN str }

\* C14: the sample title 'Advanced: I/O & Networking' gives the filename
\* 'Advanced__I_O___Networking.md', colon, slash, ampersand and spaces replaced
C14_Original ==
    \A i \in Succeeded :
        chapter_links[i].title = SampleTitle =>
            tres[i].filename =
                <<"A", "d", "v", "a", "n", "c", "e", "d", "_", "_", "I",
                  "_", "O", "_", "_", "_", "N", "e", "t", "w", "o", "r", "k", "i", "n", "g", ".", "m", "d">>

\* C14 as amended: every character of the rule and every whitespace run is
\* replaced by an underscore, the ampersand is no character of the rule and
\* stays: the sample title gives 'Advanced__I_O_&_Networking.md'
C14_SampleFilename ==
    \A i \in Succeeded :
        /\ Chars(tres[i].filename) \cap (Hostile \cup Whitespace) = {}
        /\ chapter_links[i].title = SampleTitle =>
              tres[i].filename =
                  <<"A", "d", "v", "a", "n", "c", "e", "d", "_", "_", "I",
                    "_", "O", "_", "&", "_", "N", "e", "t", "w", "o", "r", "k", "i", "n", "g", ".", "m", "d">>

\* C14 witness: the chapter of the sample title was processed
C14_Witness ==
    \E i \in Succeeded :
        /\ chapter_links[i].title = SampleTitle
        /\ "&" \in Chars(tres[i].filename)
        /\ pc = "done"

\* the lines of a text: the pieces between its line feeds
RECURSIVE SplitLines(_, _)
SplitLines(text, line) ==
    IF text = <<>> THEN <<line>>
    ELSE IF Head(text) = "\n" THEN <<line>> \o SplitLines(Tail(text), <<>>)
    ELSE SplitLines(Tail(text), Append(line, Head(text)))

\* a blank line: an empty line, or (not strict) a line of whitespace only
IsBlankLine(line, strict) ==
    IF strict THEN line = <<>> ELSE \A k \in DOMAIN line : line[k] \in Whitespace

\* the lines with every run of blank lines cut down to its first line
RECURSIVE SqueezeBlankLines(_, _)
SqueezeBlankLines(lines, strict) ==
    IF Len(lines) < 2 THEN lines
    ELSE IF IsBlankLine(lines[1], strict) /\ IsBlankLine(lines[2], strict)
         THEN SqueezeBlankLines(<<lines[1]>> \o SubSeq(lines, 3, Len(lines)), strict)
         ELSE <<lines[1]>> \o SqueezeBlankLines(Tail(lines), strict)

\* two texts that differ only in how many blank lines follow one another
SameUpToBlankLines(t1, t2, strict) ==
    SqueezeBlankLines(SplitLines(t1, <<>>), strict) =
        SqueezeBlankLines(SplitLines(t2, <<>>), strict)

\* the pages whose Markdown a ledger entry can stem from
ContentPageIds == { w \in SamplePageIds : main_element(SamplePages[w]) # "none" }

\* C15: a chapter whose converted text differs from the one hashed before
\* only in the number of consecutive blank lines (lines that are empty or
\* hold whitespace only) is not reported as changed, and the stored Markdown
\* is a fixed point of the clean-up
C15_Original ==
    \A i \in Succeeded :
        /\ clean_markdown(tres[i].content) = tres[i].content
        /\ \A w \in ContentPageIds :
              (/\ disk_at_start[1] = JsonFile(LedgerAfter(w))
               /\ SameUpToBlankLines(RawMarkdown(PageOf(UrlOf(i), w)),
                                     RawMarkdown(PageOf(UrlOf(i), remote[UrlOf(i)])),
                                     FALSE))
                  => ~tres[i].changed

\* C15 as amended: the same for blank lines that are empty lines; a single
\* line of whitespace is kept as it is and tells the digest apart
C15_EmptyLineRunsIgnored ==
    \A i \in Succeeded :
        /\ clean_markdown(tres[i].content) = tres[i].content
        /\ \A w \in ContentPageIds :
              (/\ disk_at_start[1] = JsonFile(LedgerAfter(w))
               /\ SameUpToBlankLines(RawMarkdown(PageOf(UrlOf(i), w)),
                                     RawMarkdown(PageOf(UrlOf(i), remote[UrlOf(i)])),
                                     TRUE))
                  => ~tres[i].changed

\* C15 witness: a page with four line feeds in a row, hashed before with two,
\* is processed and not reported
C15_Witness ==
    \E i \in Succeeded :
        /\ disk_at_start[1] = JsonFile(LedgerAfter(3))
        /\ remote[UrlOf(i)] = 4
        /\ RawMarkdown(PageOf(UrlOf(i), 3)) # RawMarkdown(PageOf(UrlOf(i), 4))
        /\ ~tres[i].changed
        /\ pc = "done"
        /\ changed_chapters = <<>>

\* C16: once an interrupt has arrived no chapter request goes out, neither
\* the combined file nor the ledger file is written, every chapter file is
\* the whole Markdown of a chapter that was collected, and run() ends with
\* the session closed
C16_Original ==
    /\ [][sigint # "none" =>
            /\ fetched' = fetched
            /\ combined_file' = combined_file
            /\ ledger_file' = ledger_file]_vars
    /\ []((sigint # "none" /\ pc \in {"interrupted", "done"}) =>
            /\ session = "closed"
            /\ \A f \in DOMAIN chapter_files :
                    \E i \in Succeeded :
                        /\ tpc[i] = "consumed"
                        /\ tres[i].filename = f
                        /\ chapter_files[f] = tres[i].content)

\* what tells one failure of _fetch_page from another: the class of the
\* exception and the fixed part of its message
FailureKind(f) == <<f.exc, f.msg>>

\* C17: a status other than 200 surfaces as a failure with the status code
\* and at most 200 characters of the body, of a kind that no transport error
\* (refused connection, timeout) surfaces as
C17_Original ==
    (pc = "list_raised" /\ fetch_failure.cause = "status") =>
        /\ fetch_failure.status \notin {0, StatusOK}
        /\ fetch_failure.excerpt_len <= ExcerptLen
        /\ \A resp \in ListResponses :
                resp.kind \in {"client_error", "timeout"} =>
                    FailureKind(fetch_error(resp)) # FailureKind(fetch_failure)

\* C18: the run of the legacy command line works with the concurrency limit,
\* the root URL and the output directory given on the command line
C18_Original ==
    legacy.pc = "ran" =>
        /\ legacy.used.semaphore = legacy.args.max_concurrent
        /\ legacy.used.root_url = <<legacy.args.url, legacy.args.query_param>>
        /\ legacy.used.output_dir = legacy.args.output_dir

\* C19: the Markdown of a chapter holds no text that occurs only in script,
\* style, nav, header or footer elements below the content element, and a
\* page without any content element makes the chapter fail
C19_UnwantedDropped ==
    \A i \in Succeeded \cup Failed :
        LET page == PageOf(UrlOf(i), remote[UrlOf(i)])
            region == page.regions[main_element(page)]
            wanted == UNION { Chars(region[k].md) :
                                k \in { h \in DOMAIN region : IsWanted(region[h]) } }
        IN  /\ main_element(page) = "none" =>
                    (~tres[i].ok /\ tres[i].content = <<>>)
            /\ tres[i].ok =>
                    \A k \in DOMAIN region :
                        ~IsWanted(region[k]) =>
                            (Chars(region[k].md) \ wanted)
                                \cap Chars(tres[i].content) = {}

\* C19 witness: a chapter taken from a content div with nav and script
\* elements below it
C19_Witness ==
    \E i \in Succeeded :
        /\ main_element(PageOf(UrlOf(i), remote[UrlOf(i)])) = "div.class"
        /\ tres[i].content = <<"a", "\n", "\n", "b">>
        /\ pc = "done"

\* the ledger a run ends with, from what was loaded and from the chapters
\* that succeeded, whatever the order they completed in
FinalLedger ==
    LET loaded == load_metadata(disk_at_start[1]).metadata.map
        done == { UrlOf(i) : i \in Succeeded }
    IN  [u \in DOMAIN loaded \cup done |->
            IF u \in done
            THEN LET i == CHOOSE j \in Succeeded : UrlOf(j) = u
                 IN  LedgerEntry(chapter_links[i].title, tres[i].filename,
                                 calculate_hash(tres[i].content), run_no, u)
            ELSE loaded[u]]

C21_Original ==
    (pc = "processing" /\ Len(chapter_links) > MaxConcurrent) =>
        \A i, j \in Tasks :
            (i < j /\ tpc[j] # "waiting") => tpc[i] # "waiting"

\* C22: the ledger file is opened for writing at most once per run, in no dry
\* run, after every chapter task was collected and the combined file written;
\* a run that ends before that leaves the ledger file as it found it; chapter
\* files are written one per collected chapter while the chapters are processed
C22_LedgerWrittenLast ==
    /\ [][/\ ledger_file' # ledger_file =>
                /\ pc \in {"save", "saving"}
                /\ ~dry_run
                /\ \A i \in Tasks : tpc[i] = "consumed"
                /\ combined_file' = combined_file
                /\ combined_file = [exists |-> TRUE, body |-> CombinedBody(results)]
                /\ results = OrderedResults(results_dict)
          /\ chapter_files' # chapter_files =>
                /\ pc = "processing"
                /\ ledger_writes = 0
                /\ done_queue # <<>>
                /\ tres[Head(done_queue)].ok
                /\ chapter_files' =
                      (tres[Head(done_queue)].filename :> tres[Head(done_queue)].content)
                      @@ chapter_files
                /\ ledger_file' = ledger_file
                /\ combined_file' = combined_file]_vars
    /\ [](/\ ledger_writes <= 1
          /\ ledger_writes = 0 => ledger_file = disk_at_start[1]
          /\ dry_run => ledger_writes = 0
          /\ pc \in {"start", "constructed", "discover", "processing", "save",
                     "raised", "init_raised"} => ledger_writes = 0)

\* C22 witness: a run that died in the chapter phase with chapter files
\* written and a chapter still out, the ledger file of an earlier run untouched
C22_Witness ==
    /\ pc = "crashed"
    /\ ledger_writes = 0
    /\ disk_at_start[1].kind = "json"
    /\ disk_at_start[1].map # EmptyMap
    /\ ledger_file = disk_at_start[1]
    /\ DOMAIN chapter_files # {}
    /\ metadata.map # disk_at_start[1].map
    /\ \E i \in Tasks : tpc[i] # "consumed"

\* the text without its leading "Open ", everything after it kept
RemoveLeadingPrefix(text) ==
    IF StartsWith(text, OpenPrefix)
    THEN SubSeq(text, Len(OpenPrefix) + 1, Len(text))
    ELSE text

\* C23: the title of every entry discovery returns is the text of its anchor
\* without the leading "Open ", every later "Open " kept, and is neither
\* empty nor the leftover "Open"
C23_Original ==
    pc = "listed" =>
        \A k \in DOMAIN chapter_links :
            /\ chapter_links[k].title =
                  RemoveLeadingPrefix(toc_links[FirstPos(chapter_links[k].url)].text)
            /\ chapter_links[k].title \notin {<<>>, OpenWord}

\* the path of the manual ("/2/the-omarchy-manual") begins the path of url,
\* on the manual's host
UnderManualPath(url) ==
    /\ url.host = base_url.host
    /\ Len(url.path) > Len(base_url.path)
    /\ SubSeq(url.path, 1, Len(base_url.path)) = base_url.path

\* C24: every URL discovery returns lies below the manual's path on the
\* manual's host; a link that holds the manual's path segment elsewhere, on
\* another host or inside another path, is not returned
C24_Original ==
    pc = "listed" =>
        \A k \in DOMAIN chapter_links : UnderManualPath(chapter_links[k].url)

\* the ledger as the constructor loaded it
LoadedMap == load_metadata(disk_at_start[1]).metadata.map

\* a map holds for key what another map holds for it: the same entry, or none
SameAt(f, g, key) ==
    /\ key \in DOMAIN f <=> key \in DOMAIN g
    /\ key \in DOMAIN f => f[key] = g[key]

\* C25: a chapter whose fetch or extraction failed leaves the persisted state
\* alone: the step that fails and the step that collects the failure change
\* neither ledger nor files nor the changed list; the ledger entry of its URL,
\* in memory and in the saved file, is the one loaded at start (or none), its
\* chapter file is as the run found it unless another chapter of the same
\* filename wrote it, and the changed list holds one name per changed success
C25_FailureNoEffect ==
    /\ [][\A i \in Tasks :
            /\ (tpc[i] = "fetching" /\ tpc'[i] = "completed" /\ ~tres'[i].ok) =>
                    /\ metadata' = metadata
                    /\ disk' = disk
                    /\ changed_chapters' = changed_chapters
            /\ (tpc[i] = "completed" /\ tpc'[i] = "consumed" /\ ~tres[i].ok) =>
                    /\ metadata' = metadata
                    /\ disk' = disk
                    /\ changed_chapters' = changed_chapters
                    /\ results_dict' = results_dict]_vars
    /\ [](/\ \A i \in Failed :
                /\ SameAt(metadata.map, LoadedMap, UrlOf(i))
                /\ ledger_writes = 0 => ledger_file = disk_at_start[1]
                /\ (ledger_writes > 0 /\ ledger_file.kind = "json") =>
                        SameAt(ledger_file.map, LoadedMap, UrlOf(i))
                /\ (\A j \in Succeeded :
                        tres[j].filename # FilenameOf(chapter_links[i].title)) =>
                        SameAt(chapter_files, disk_at_start[2],
                               FilenameOf(chapter_links[i].title))
          /\ Len(changed_chapters) =
                Cardinality({ j \in Succeeded : tpc[j] = "consumed" /\ tres[j].changed }))

\* C25 witness: the second invocation ended; a chapter the first one had
\* saved failed in it, its entry and its file are those of the first
\* invocation, and another chapter was reported as changed
C25_Witness ==
    /\ run_no = 2
    /\ pc = "done"
    /\ ledger_writes = 1
    /\ changed_chapters # <<>>
    /\ \E i \in Failed :
            /\ UrlOf(i) \in prev_run.ok
            /\ UrlOf(i) \in DOMAIN ledger_file.map
            /\ ledger_file.map[UrlOf(i)].last_updated = 1
            /\ FilenameOf(chapter_links[i].title) \in DOMAIN chapter_files
            /\ remote[UrlOf(i)] = 2
            /\ \A j \in Succeeded :
                    tres[j].filename # FilenameOf(chapter_links[i].title)

\* C26: when a run that is no dry run has ended, every chapter that succeeded
\* in it has a chapter file under the filename of its ledger entry, and the
\* digest of that file's content is the hash of the entry
C26_Original ==
    (pc = "done" /\ ~dry_run) =>
        \A i \in Succeeded :
            LET entry == metadata.map[UrlOf(i)]
            IN  /\ entry.filename \in DOMAIN chapter_files
                /\ calculate_hash(chapter_files[entry.filename]) = entry.hash

\* the filename without its ".md"
StemOf(filename) == SubSeq(filename, 1, Len(filename) - Len(MdSuffix))

\* C27: the stem of every chapter's filename holds none of the characters
\* <>:"/\|?* and no whitespace, is at most 100 characters long, and neither
\* begins nor ends with a dot or an underscore
C27_Original ==
    \A i \in Succeeded :
        LET stem == StemOf(tres[i].filename)
        IN  /\ stem = sanitize_filename(chapter_links[i].title)
            /\ Chars(stem) \cap (Hostile \cup Whitespace) = {}
            /\ Len(stem) <= MaxFilenameLen
            /\ stem # <<>> => (stem[1] \notin StripChars /\ stem[Len(stem)] \notin StripChars)

\* C28: when the process has ended, after run() or after the listing of
\* list-links mode, whether it returned or raised, no session is open
C28_Original ==
    (exit_status # -1 \/ pc = "interrupted") => session # "open"

\* C29: once the scraper is constructed its ledger is a mapping from URL to
\* entry, whatever the ledger file held, and no chapter fails in the lookup
\* of its stored digest
C29_Original ==
    pc \notin {"start", "init_raised"} =>
        /\ metadata.shape = "dict"
        /\ \A i \in Failed : tres[i].err # "AttributeError"

\* C30: in the embedded scraper of run.py the failure of one chapter ends the
\* run: the chapter whose failure is collected makes run() raise, nothing is
\* collected or written afterwards, there is no combined file, the session
\* is closed, and the chapter files written before the failure stay
C30_EmbeddedFailureEndsRun ==
    /\ [][/\ pc # "embedded_raised"
          /\ \A f \in DOMAIN chapter_files :
                f \in DOMAIN chapter_files' /\
                (pc' = "embedded_raised" => chapter_files'[f] = chapter_files[f])
          /\ (pc = "embedded_processing" /\ done_queue # <<>>
                /\ ~tres[Head(done_queue)].ok
                /\ tpc'[Head(done_queue)] = "consumed") =>
                    /\ pc' = "embedded_raised"
                    /\ disk' = disk
                    /\ results_dict' = results_dict]_vars
    /\ [](/\ \A i \in Tasks : (tpc[i] = "consumed" /\ ~tres[i].ok) =>
                /\ pc = "embedded_raised"
                /\ error = tres[i].err
          /\ pc = "embedded_raised" =>
                /\ session = "closed"
                /\ combined_file = AbsentFile
                /\ results = <<>>
                /\ \A i \in Tasks : tpc[i] \notin {"waiting", "fetching"}
                /\ \A f \in DOMAIN chapter_files :
                        \E j \in Succeeded : /\ tpc[j] = "consumed"
                                             /\ tres[j].filename = f
                                             /\ chapter_files[f] = tres[j].content
          /\ pc = "embedded_done" => Failed = {})

\* C30 witness: a chapter was collected and written, the next one in
\* as_completed's queue had failed, and a third, finished successfully, was
\* never collected
C30_Witness ==
    /\ pc = "embedded_raised"
    /\ ~dry_run
    /\ session = "closed"
    /\ DOMAIN chapter_files # {}
    /\ combined_file = AbsentFile
    /\ \E i \in Tasks : tpc[i] = "consumed" /\ ~tres[i].ok
    /\ \E j \in Tasks : tpc[j] = "completed" /\ tres[j].ok
                        /\ tres[j].filename \notin DOMAIN chapter_files

====
